---- MODULE Spec2Model ----
(***************************************************************************)
(* tapshark: the tap pipeline of cmd/tapshark.go and the pkg package.      *)
(*                                                                         *)
(*   RecvEvents      (Decoder)     byte stream -> eventCh, closing         *)
(*   ProcessEvents   (Correlator)  eventCh -> outstandingRequests ->       *)
(*                                 requestCh, stops on done                *)
(*   processTapEvents (session)    opens the transport, starts the tasks,  *)
(*                                 drains requestCh into el.events         *)
(*   NewCmdTapShark  (owner)       runs the UI, then sends once on done    *)
(*                                                                         *)
(* Channels: eventCh and done are unbuffered (a send and a receive meet in *)
(* one step), requestCh and closing are buffered.                          *)
(*                                                                         *)
(* A nil pointer dereference in any goroutine is a panic nothing recovers: *)
(* the goroutine runs its deferred calls, if it has any, while the others  *)
(* go on, then the Go runtime ends the process and no goroutine takes      *)
(* another step.                                                           *)
(* The same holds once main has returned after RunE: the process exits     *)
(* with whatever goroutines are still running.                             *)
(***************************************************************************)
EXTENDS Naturals, Sequences, FiniteSets

\* ---------------------------------------------------------------- bounds

\* Number of events the transport delivers before it stays silent.
MaxEvents == 4

\* Capacity of requestCh. The program makes it with capacity 100
\* (cmd/tapshark.go:232); the model scales it down so that the queue holds
\* several records at once, and is full with the Correlator blocked on it,
\* within MaxEvents events.
RequestChCap == 2

\* Capacity of closing (cmd/tapshark.go:234).
ClosingCap == 1

\* Capacity of the queue in which the UI library keeps the closures handed to
\* QueueUpdateDraw until its event loop runs them.
UpdatesCap == 1

\* Addresses and stream numbers the tapped events carry.
Sources == {"s1"}
Destinations == {"d1"}
Streams == {1, 2}

Kinds == {"RequestInit", "ResponseInit", "ResponseEnd", "Other"}

\* The payload types ProcessEvents' switch has a case for.
HttpKinds == {"RequestInit", "ResponseInit", "ResponseEnd"}

\* Ways a decode fails while the body is open; a read on a closed body
\* fails with ErrClosedResponseBody.
OpenFailures == {"eof", "error"}

VARIABLES
  mainPc,               \* NewCmdTapShark's RunE and main: "run", "stopping",
                        \* "returned", "exited", "panicked"
  ptePc,                \* processTapEvents: "open", "select", "update", "await",
                        \* "deferred", "returned", "panicking", "panicked"
  bodyClosed,           \* the deferred body.Close() has run
  decPc,                \* RecvEvents: "idle", "read", "send", "notify", "returned"
  decEvent,             \* the event RecvEvents is sending on eventCh
  termination,          \* how the decode loop ended: "none", "eof", "closedBody", "error"
  corrPc,               \* ProcessEvents: "idle", "select", "emit", "returned", "panicked"
  corrReq,              \* the Stream ProcessEvents is sending on requestCh
  outstandingRequests,  \* ProcessEvents' map streamID -> Stream
  requestCh,            \* buffered channel of Stream
  closing,              \* number of notifications buffered in closing
  closerPc,             \* the goroutine of lines 239-241: "idle", "wait", "done"
  requestChClosed,      \* requestCh has been closed
  events,               \* el.events
  uiPc,                 \* the UI goroutine: "idle", "reading" (in selectionChanged)
  aborted,              \* the Go runtime ended the process after a panic
  updates,              \* closures queued in the UI's update queue, not yet run
  updateWaits,          \* whether the UI library's QueueUpdate returns only after
                        \* the closure ran: "unknown" before the first call,
                        \* then "waits" or "queues"
  decoded,              \* history: events decoded, in decode order
  published,            \* history: events handed over on eventCh
  emitted,              \* history: Streams put on requestCh
  closingSent           \* history: number of sends on closing

vars == <<mainPc, ptePc, bodyClosed, decPc, decEvent, termination, corrPc,
          corrReq, outstandingRequests, requestCh, closing, closerPc, events,
          decoded, published, emitted, closingSent, requestChClosed, uiPc,
          aborted, updates, updateWaits>>

\* ------------------------------------------------------------ data model

\* A decoded tapPb.TapEvent. seq is the event's position in the byte stream
\* and stands for its content: two events are the same payload iff they have
\* the same seq. Message fields are optional on the wire: hasId says that the
\* HTTP payload carries its Id (GetId() is not nil), and stream is the Id's
\* Stream (0 where there is none). SourceMeta and DestinationMeta are
\* optional too; they are read in one place, fromPodTo, and drawn there.
NoEvent ==
  [seq |-> 0, src |-> "", dst |-> "", kind |-> "none", hasId |-> FALSE,
   stream |-> 0]

TapEvent(n, s, d, k, id, st) ==
  [seq |-> n, src |-> s, dst |-> d, kind |-> k, hasId |-> id, stream |-> st]

\* pkg.Stream. TimestampMs is left out: ProcessEvents never sets it and no
\* property of the pipeline reads it.
Stream(ev, req, rspInit, rspEnd) ==
  [Event |-> ev, ReqInit |-> req, RspInit |-> rspInit, RspEnd |-> rspEnd]

NoStream == Stream(NoEvent, NoEvent, NoEvent, NoEvent)

\* Mutant: id.stream is never set, the key is the address pair alone.
streamID_NoStream(e) == <<e.src, e.dst, 0>>

\* The outcome of a nil pointer dereference: a run-time panic.
Panic == <<"panic">>

\* The map key ProcessEvents builds: source and destination address of the
\* event, stream number of its HTTP payload (0 for an event the switch has no
\* case for). In the three cases the stream is read as GetId().Stream, a
\* field selector on the pointer GetId() returns: with no Id the pointer is
\* nil and the selector panics.
streamID(e) ==
  IF e.kind \in HttpKinds /\ ~e.hasId
    THEN Panic
    ELSE <<e.src, e.dst, e.stream>>

StreamIDs == Sources \X Destinations \X Streams

\* m[k] = v on a Go map.
MapPut(m, k, v) == [x \in (DOMAIN m) \cup {k} |-> IF x = k THEN v ELSE m[x]]

\* Mutant: a RequestInit for a key already in the map updates the entry
\* instead of replacing it.
OnRequestInit_KeepOld(m, e) ==
  IF streamID(e) \in DOMAIN m
    THEN MapPut(m, streamID(e),
                [m[streamID(e)] EXCEPT !.Event = e, !.ReqInit = e])
    ELSE MapPut(m, streamID(e), Stream(e, e, NoEvent, NoEvent))

\* case *tapPb.TapEvent_Http_RequestInit_
OnRequestInit(m, e) ==
  MapPut(m, streamID(e), Stream(e, e, NoEvent, NoEvent))

\* Mutant: the updated copy is not written back to the map.
OnResponseInit_NoWriteBack(m, e) == m

\* case *tapPb.TapEvent_Http_ResponseInit_
OnResponseInit(m, e) ==
  IF streamID(e) \in DOMAIN m
    THEN MapPut(m, streamID(e), [m[streamID(e)] EXCEPT !.RspInit = e])
    ELSE m

\* case *tapPb.TapEvent_Http_ResponseEnd_: the map after the case.
OnResponseEnd(m, e) == m

\* Mutant: the map entry is sent as it is, without the ResponseEnd.
ResponseEndRecord_NoEnd(m, e) ==
  IF streamID(e) \in DOMAIN m THEN m[streamID(e)] ELSE NoStream

\* case *tapPb.TapEvent_Http_ResponseEnd_: the Stream sent on requestCh,
\* NoStream when the stream is unknown.
ResponseEndRecord(m, e) ==
  IF streamID(e) \in DOMAIN m
    THEN [m[streamID(e)] EXCEPT !.RspEnd = e]
    ELSE NoStream

\* Mutant: a payload of another type is stored like a RequestInit.
Dispatch_OtherStored(m, e) ==
  CASE e.kind = "ResponseInit" -> OnResponseInit(m, e)
    [] e.kind = "ResponseEnd" -> OnResponseEnd(m, e)
    [] OTHER -> OnRequestInit(m, e)

\* The map after the switch on the event's payload type.
Dispatch(m, e) ==
  CASE e.kind = "RequestInit" -> OnRequestInit(m, e)
    [] e.kind = "ResponseInit" -> OnResponseInit(m, e)
    [] e.kind = "ResponseEnd" -> OnResponseEnd(m, e)
    [] OTHER -> m

\* ProcessEvents' loop run over the event sequence es from map m with nobody
\* else on the channels: the Streams it sends on requestCh, after out.
RECURSIVE ProcessAlone(_, _, _)
ProcessAlone(es, m, out) ==
  IF es = <<>> \/ streamID(Head(es)) = Panic
    THEN out
    ELSE LET e == Head(es)
             rec == IF e.kind = "ResponseEnd"
                      THEN ResponseEndRecord(m, e)
                      ELSE NoStream
         IN ProcessAlone(Tail(es), Dispatch(m, e),
                         IF rec # NoStream THEN Append(out, rec) ELSE out)

\* ----------------------------------------------------------------- Init

Init ==
  /\ mainPc = "run"
  /\ ptePc = "open"
  /\ bodyClosed = FALSE
  /\ decPc = "idle"
  /\ decEvent = NoEvent
  /\ termination = "none"
  /\ corrPc = "idle"
  /\ corrReq = NoStream
  /\ outstandingRequests = <<>>
  /\ requestCh = <<>>
  /\ closing = 0
  /\ closerPc = "idle"
  /\ events = <<>>
  /\ decoded = <<>>
  /\ published = <<>>
  /\ emitted = <<>>
  /\ closingSent = 0
  /\ requestChClosed = FALSE
  /\ uiPc = "idle"
  /\ aborted = FALSE
  /\ updates = 0
  /\ updateWaits = "unknown"

\* The process is alive: the runtime has not ended it after a panic and
\* main has not returned.
Running == ~aborted /\ mainPc # "exited"

\* --------------------------------------------------- processTapEvents

\* tapPkg.Reader fails: processTapEvents returns before it starts any task.
ReaderFails ==
  /\ Running
  /\ ptePc = "open"
  /\ ptePc' = "returned"
  /\ UNCHANGED <<mainPc, bodyClosed, decPc, decEvent, termination, corrPc,
                 corrReq, outstandingRequests, requestCh, closing, closerPc,
                 events, decoded, published, emitted, closingSent>>
  /\ UNCHANGED <<requestChClosed, uiPc, aborted, updates, updateWaits>>

\* tapPkg.Reader succeeds: the channels are made and the three goroutines
\* started; processTapEvents enters its select loop.
ReaderOk ==
  /\ Running
  /\ ptePc = "open"
  /\ ptePc' = "select"
  /\ decPc' = "read"
  /\ corrPc' = "select"
  /\ closerPc' = "wait"
  /\ UNCHANGED <<mainPc, bodyClosed, decEvent, termination, corrReq,
                 outstandingRequests, requestCh, closing, events, decoded,
                 published, emitted, closingSent>>
  /\ UNCHANGED <<requestChClosed, uiPc, aborted, updates, updateWaits>>

\* case req := <-requestCh: append the record to el.events.
TakeRecord(q) == Append(events, Head(q))

\* Whether req.Event was decoded with SourceMeta and DestinationMeta: either,
\* unless fromPodTo already returned for a record of the same event.
MetaOf(req) ==
  IF \E i \in 1..Len(events) : events[i].Event = req.Event
    THEN {TRUE}
    ELSE BOOLEAN

\* fromPodTo reads req.Event.SourceMeta.Labels and
\* req.Event.DestinationMeta.Labels with field selectors, not with the
\* nil-safe getters: an event without the metadata makes it panic. The three
\* strings it returns otherwise are read by no property.
fromPodTo(req, meta) ==
  IF meta THEN <<"from", "pod", "to">> ELSE Panic

\* case req := <-requestCh: the record is appended to el.events, the cells
\* are computed and processTapEvents reaches el.app.QueueUpdateDraw.
ConsumerRecv ==
  /\ Running
  /\ ptePc = "select"
  /\ requestCh # <<>>
  /\ \E meta \in MetaOf(Head(requestCh)) :
       fromPodTo(Head(requestCh), meta) # Panic
  /\ events' = TakeRecord(requestCh)
  /\ requestCh' = Tail(requestCh)
  /\ ptePc' = "update"
  /\ UNCHANGED <<mainPc, bodyClosed, decPc, decEvent, termination,
                 corrPc, corrReq, outstandingRequests, closing, closerPc,
                 decoded, published, emitted, closingSent>>
  /\ UNCHANGED <<requestChClosed, uiPc, aborted, updates, updateWaits>>

\* case req := <-requestCh: the record is appended to el.events and
\* fromPodTo panics. The goroutine starts unwinding; the process is alive
\* and the other goroutines go on.
ConsumerPanic ==
  /\ Running
  /\ ptePc = "select"
  /\ requestCh # <<>>
  /\ \E meta \in MetaOf(Head(requestCh)) :
       fromPodTo(Head(requestCh), meta) = Panic
  /\ events' = TakeRecord(requestCh)
  /\ requestCh' = Tail(requestCh)
  /\ ptePc' = "panicking"
  /\ UNCHANGED <<mainPc, bodyClosed, decPc, decEvent, termination,
                 corrPc, corrReq, outstandingRequests, closing, closerPc,
                 decoded, published, emitted, closingSent, requestChClosed,
                 uiPc, aborted, updates, updateWaits>>

\* The panicking processTapEvents runs its deferred body.Close().
PanicCloseBody ==
  /\ Running
  /\ ptePc = "panicking"
  /\ ptePc' = "panicked"
  /\ bodyClosed' = TRUE
  /\ UNCHANGED <<mainPc, decPc, decEvent, termination, corrPc, corrReq,
                 outstandingRequests, requestCh, closing, closerPc, events,
                 decoded, published, emitted, closingSent>>
  /\ UNCHANGED <<requestChClosed, uiPc, aborted, updates, updateWaits>>

\* A goroutine has panicked and run its deferred calls.
Unwound ==
  \/ ptePc = "panicked"
  \/ corrPc = "panicked"

\* Nothing recovered the panic: the Go runtime reports it and ends the
\* process, every goroutine with it.
PanicExit ==
  /\ Running
  /\ Unwound
  /\ aborted' = TRUE
  /\ UNCHANGED <<mainPc, ptePc, bodyClosed, decPc, decEvent, termination,
                 corrPc, corrReq, outstandingRequests, requestCh, closing,
                 closerPc, events, decoded, published, emitted, closingSent,
                 requestChClosed, uiPc, updates, updateWaits>>

\* A goroutine is panicking or the runtime has ended the process for it.
Panicked == aborted \/ Unwound \/ ptePc = "panicking"

\* What the UI library's QueueUpdate can do at this call. The library is
\* linked once, so every call does what the first did; which of the two it
\* is shows at the first call.
UpdateModes ==
  IF updateWaits = "unknown" THEN {"waits", "queues"} ELSE {updateWaits}

\* el.app.QueueUpdateDraw(func() {...}): the closure that sets the row's
\* cells is put in the UI's update queue, which blocks while the queue is
\* full. Where QueueUpdate returns once the closure is queued,
\* processTapEvents is back in its select; where it returns after the
\* closure has run, processTapEvents waits for the UI's event loop.
QueueUpdate ==
  /\ Running
  /\ ptePc = "update"
  /\ updates < UpdatesCap
  /\ updates' = updates + 1
  /\ \E w \in UpdateModes :
       /\ updateWaits' = w
       /\ ptePc' = IF w = "waits" THEN "await" ELSE "select"
  /\ UNCHANGED <<mainPc, bodyClosed, decPc, decEvent, termination,
                 corrPc, corrReq, outstandingRequests, requestCh, closing,
                 closerPc, events, decoded, published, emitted, closingSent,
                 requestChClosed, uiPc, aborted>>

\* The UI's event loop, inside app.Run() and not in a handler, takes the
\* next closure from the update queue and runs it: the row is set and the
\* table redrawn, and a QueueUpdate that waits for its closure returns.
RunUpdate ==
  /\ Running
  /\ mainPc = "run"
  /\ uiPc = "idle"
  /\ updates > 0
  /\ updates' = updates - 1
  /\ ptePc' = IF ptePc = "await" THEN "select" ELSE ptePc
  /\ UNCHANGED <<mainPc, bodyClosed, decPc, decEvent, termination,
                 corrPc, corrReq, outstandingRequests, requestCh, closing,
                 closerPc, events, decoded, published, emitted, closingSent,
                 requestChClosed, uiPc, aborted, updateWaits>>

\* Rows of the table below the header: the records of el.events whose
\* closure has run.
Drawn ==
  Len(events) - updates - (IF ptePc \in {"update", "panicking", "panicked"} THEN 1 ELSE 0)

\* go func() { <-closing }()
CloserRecv ==
  /\ Running
  /\ closerPc = "wait"
  /\ closing > 0
  /\ closing' = closing - 1
  /\ closerPc' = "done"
  /\ UNCHANGED <<mainPc, ptePc, bodyClosed, decPc, decEvent, termination,
                 corrPc, corrReq, outstandingRequests, requestCh, events,
                 decoded, published, emitted, closingSent>>
  /\ UNCHANGED <<requestChClosed, uiPc, aborted, updates, updateWaits>>

\* ----------------------------------------------------- NewCmdTapShark

\* app.Run() returns nil (the user leaves the UI): RunE reaches
\* done <- struct{}{}.
AppExit ==
  /\ Running
  /\ mainPc = "run"
  /\ uiPc = "idle"
  /\ mainPc' = "stopping"
  /\ UNCHANGED <<ptePc, bodyClosed, decPc, decEvent, termination, corrPc,
                 corrReq, outstandingRequests, requestCh, closing, closerPc,
                 events, decoded, published, emitted, closingSent>>
  /\ UNCHANGED <<requestChClosed, uiPc, aborted, updates, updateWaits>>

\* app.Run() returns an error and RunE panics with it: RunE has no deferred
\* call, and the Go runtime ends the process. No goroutine waits for this
\* step or reads what it changes, so the steps the others take before the
\* process has ended are the steps they take before this one.
AppRunFails ==
  /\ Running
  /\ mainPc = "run"
  /\ uiPc = "idle"
  /\ mainPc' = "panicked"
  /\ aborted' = TRUE
  /\ UNCHANGED <<ptePc, bodyClosed, decPc, decEvent, termination, corrPc,
                 corrReq, outstandingRequests, requestCh, closing, closerPc,
                 events, decoded, published, emitted, closingSent,
                 requestChClosed, uiPc, updates, updateWaits>>

\* The send on done meets processTapEvents' case <-done: RunE goes on to its
\* return nil, processTapEvents to its return, where the deferred
\* body.Close() is still to run.
StopConsumer ==
  /\ Running
  /\ mainPc = "stopping"
  /\ ptePc = "select"
  /\ mainPc' = "returned"
  /\ ptePc' = "deferred"
  /\ UNCHANGED <<bodyClosed, decPc, decEvent, termination, corrPc, corrReq,
                 outstandingRequests, requestCh, closing, closerPc, events,
                 decoded, published, emitted, closingSent>>
  /\ UNCHANGED <<requestChClosed, uiPc, aborted, updates, updateWaits>>

\* processTapEvents returns: the deferred body.Close() runs.
CloseBody ==
  /\ Running
  /\ ptePc = "deferred"
  /\ ptePc' = "returned"
  /\ bodyClosed' = TRUE
  /\ UNCHANGED <<mainPc, decPc, decEvent, termination, corrPc, corrReq,
                 outstandingRequests, requestCh, closing, closerPc, events,
                 decoded, published, emitted, closingSent>>
  /\ UNCHANGED <<requestChClosed, uiPc, aborted, updates, updateWaits>>

\* RunE has returned nil: Execute returns, main returns and the process
\* exits, whatever the other goroutines are doing.
ProcessExit ==
  /\ Running
  /\ mainPc = "returned"
  /\ mainPc' = "exited"
  /\ UNCHANGED <<ptePc, bodyClosed, decPc, decEvent, termination, corrPc,
                 corrReq, outstandingRequests, requestCh, closing, closerPc,
                 events, decoded, published, emitted, closingSent>>
  /\ UNCHANGED <<requestChClosed, uiPc, aborted, updates, updateWaits>>

\* The send on done meets ProcessEvents' case <-done: ProcessEvents returns
\* and RunE goes on to its return nil.
StopCorrelator ==
  /\ Running
  /\ mainPc = "stopping"
  /\ corrPc = "select"
  /\ mainPc' = "returned"
  /\ corrPc' = "returned"
  /\ UNCHANGED <<ptePc, bodyClosed, decPc, decEvent, termination, corrReq,
                 outstandingRequests, requestCh, closing, closerPc, events,
                 decoded, published, emitted, closingSent>>
  /\ UNCHANGED <<requestChClosed, uiPc, aborted, updates, updateWaits>>

\* table.SetSelectedFunc(eventLog.selectionChanged): the UI goroutine, inside
\* app.Run(), calls selectionChanged for a row of the table. Row 0 is the
\* header and reads nothing; a row below it was drawn for a record of
\* el.events, and the handler reaches req := el.events[row-1].
SelectionBegin ==
  /\ Running
  /\ mainPc = "run"
  /\ uiPc = "idle"
  /\ \E row \in 1..Drawn : uiPc' = "reading"
  /\ UNCHANGED <<mainPc, ptePc, bodyClosed, decPc, decEvent, termination,
                 corrPc, corrReq, outstandingRequests, requestCh, closing,
                 closerPc, events, decoded, published, emitted, closingSent,
                 requestChClosed, aborted, updates, updateWaits>>

\* selectionChanged has copied the record; the rest of the handler works on
\* the copy and returns.
SelectionEnd ==
  /\ Running
  /\ uiPc = "reading"
  /\ uiPc' = "idle"
  /\ UNCHANGED <<mainPc, ptePc, bodyClosed, decPc, decEvent, termination,
                 corrPc, corrReq, outstandingRequests, requestCh, closing,
                 closerPc, events, decoded, published, emitted, closingSent,
                 requestChClosed, aborted, updates, updateWaits>>

\* ---------------------------------------------------------- RecvEvents

\* The events the next successful decode can yield: an HTTP payload with its
\* Id, an HTTP payload without one, or an event the switch has no case for.
NextEvents ==
  LET n == Len(decoded) + 1 IN
  { TapEvent(n, s, d, k, TRUE, st) :
      s \in Sources, d \in Destinations, k \in HttpKinds, st \in Streams }
  \cup
  { TapEvent(n, s, d, k, FALSE, 0) :
      s \in Sources, d \in Destinations, k \in Kinds }

\* FromByteStreamToProtocolBuffers returns nil. The reader is a bufio.Reader,
\* so events it already holds still decode after the body was closed.
Decode ==
  /\ Running
  /\ decPc = "read"
  /\ Len(decoded) < MaxEvents
  /\ \E e \in NextEvents :
       /\ decEvent' = e
       /\ decoded' = Append(decoded, e)
  /\ decPc' = "send"
  /\ UNCHANGED <<mainPc, ptePc, bodyClosed, termination, corrPc, corrReq,
                 outstandingRequests, requestCh, closing, closerPc, events,
                 published, emitted, closingSent>>
  /\ UNCHANGED <<requestChClosed, uiPc, aborted, updates, updateWaits>>

\* Mutant: the loop goes on to the next read after a decode error.
AfterFailure_Retry == "read"

\* What RecvEvents does after a decode error: it notifies and returns.
AfterFailure == "notify"

\* FromByteStreamToProtocolBuffers returns an error while the body is open:
\* io.EOF or another error.
DecodeFail ==
  /\ Running
  /\ decPc = "read"
  /\ ~bodyClosed
  /\ \E f \in OpenFailures : termination' = f
  /\ decPc' = AfterFailure
  /\ UNCHANGED <<mainPc, ptePc, bodyClosed, decEvent, corrPc, corrReq,
                 outstandingRequests, requestCh, closing, closerPc, events,
                 decoded, published, emitted, closingSent>>
  /\ UNCHANGED <<requestChClosed, uiPc, aborted, updates, updateWaits>>

\* The read on the closed body fails with ErrClosedResponseBody.
DecodeClosed ==
  /\ Running
  /\ decPc = "read"
  /\ bodyClosed
  /\ termination' = "closedBody"
  /\ decPc' = AfterFailure
  /\ UNCHANGED <<mainPc, ptePc, bodyClosed, decEvent, corrPc, corrReq,
                 outstandingRequests, requestCh, closing, closerPc, events,
                 decoded, published, emitted, closingSent>>
  /\ UNCHANGED <<requestChClosed, uiPc, aborted, updates, updateWaits>>

\* closing <- struct{}{}; return
Notify ==
  /\ Running
  /\ decPc = "notify"
  /\ closing < ClosingCap
  /\ closing' = closing + 1
  /\ closingSent' = closingSent + 1
  /\ decPc' = "returned"
  /\ UNCHANGED <<mainPc, ptePc, bodyClosed, decEvent, termination, corrPc,
                 corrReq, outstandingRequests, requestCh, closerPc, events,
                 decoded, published, emitted>>
  /\ UNCHANGED <<requestChClosed, uiPc, aborted, updates, updateWaits>>

\* ------------------------------------------------------- ProcessEvents

\* Mutant: a ResponseInit or ResponseEnd for an unknown stream ends the loop.
AfterDispatch_FatalAnomaly(m, e) ==
  IF e.kind \in {"ResponseInit", "ResponseEnd"} /\ streamID(e) \notin DOMAIN m
    THEN "returned"
    ELSE IF e.kind = "ResponseEnd" THEN "emit" ELSE "select"

\* Where ProcessEvents goes after the switch: to the send on requestCh when a
\* ResponseEnd found its stream, back to the select otherwise.
AfterDispatch(m, e) ==
  IF e.kind = "ResponseEnd" /\ ResponseEndRecord(m, e) # NoStream
    THEN "emit"
    ELSE "select"

\* eventCh <- event meets case event := <-eventCh, and the case of the
\* event's payload panics at GetId().Stream. ProcessEvents has no deferred
\* call and takes no further step; RecvEvents, released by the rendezvous,
\* and the other goroutines go on until the runtime ends the process.
CorrPanic ==
  /\ Running
  /\ decPc = "send"
  /\ corrPc = "select"
  /\ streamID(decEvent) = Panic
  /\ published' = Append(published, decEvent)
  /\ decPc' = "read"
  /\ decEvent' = NoEvent
  /\ corrPc' = "panicked"
  /\ UNCHANGED <<mainPc, ptePc, bodyClosed, termination, corrReq,
                 outstandingRequests, requestCh, closing, closerPc, events,
                 decoded, emitted, closingSent, requestChClosed, uiPc,
                 aborted, updates, updateWaits>>

\* eventCh <- event meets case event := <-eventCh, and the switch runs.
CorrRecv ==
  /\ Running
  /\ decPc = "send"
  /\ corrPc = "select"
  /\ streamID(decEvent) # Panic
  /\ published' = Append(published, decEvent)
  /\ outstandingRequests' = Dispatch(outstandingRequests, decEvent)
  /\ corrPc' = AfterDispatch(outstandingRequests, decEvent)
  /\ corrReq' = IF decEvent.kind = "ResponseEnd"
                  THEN ResponseEndRecord(outstandingRequests, decEvent)
                  ELSE NoStream
  /\ decPc' = "read"
  /\ decEvent' = NoEvent
  /\ UNCHANGED <<mainPc, ptePc, bodyClosed, termination, requestCh, closing,
                 closerPc, events, decoded, emitted, closingSent>>
  /\ UNCHANGED <<requestChClosed, uiPc, aborted, updates, updateWaits>>

\* requestCh <- req on a buffered channel: the send proceeds only while the
\* buffer has room, and blocks otherwise.
CanSend(q) == Len(q) < RequestChCap

\* Mutant: the record overtakes the records already queued.
Enqueue_Front(q, r) == <<r>> \o q

\* The channel is first in, first out: the record goes behind the queued ones.
Enqueue(q, r) == Append(q, r)

CorrEmit ==
  /\ Running
  /\ corrPc = "emit"
  /\ CanSend(requestCh)
  /\ requestCh' = Enqueue(requestCh, corrReq)
  /\ emitted' = Append(emitted, corrReq)
  /\ corrReq' = NoStream
  /\ corrPc' = "select"
  /\ UNCHANGED <<mainPc, ptePc, bodyClosed, decPc, decEvent, termination,
                 outstandingRequests, closing, closerPc, events, decoded,
                 published, closingSent>>
  /\ UNCHANGED <<requestChClosed, uiPc, aborted, updates, updateWaits>>

\* ------------------------------------------------------ specifications

Next ==
  \/ ReaderFails
  \/ ReaderOk
  \/ ConsumerRecv
  \/ ConsumerPanic
  \/ PanicCloseBody
  \/ PanicExit
  \/ QueueUpdate
  \/ RunUpdate
  \/ CloserRecv
  \/ AppExit
  \/ AppRunFails
  \/ StopConsumer
  \/ CloseBody
  \/ StopCorrelator
  \/ ProcessExit
  \/ Decode
  \/ DecodeFail
  \/ DecodeClosed
  \/ Notify
  \/ CorrPanic
  \/ CorrRecv
  \/ CorrEmit

Spec == Init /\ [][Next]_vars

\* The pipeline together with the UI goroutine's reads of el.events.
UINext ==
  \/ Next
  \/ SelectionBegin
  \/ SelectionEnd

UISpec == Init /\ [][UINext]_vars

\* The Go scheduler runs every goroutine that can take a step, and a channel
\* operation that can proceed does. Nothing makes the user leave the UI
\* (AppExit) or the transport deliver an event (Decode) or end (DecodeFail),
\* so these carry no fairness. The call that opens the transport returns,
\* with the body or with an error, and the UI's event loop, while it runs,
\* gets to the closures queued for it.
FairSpec ==
  /\ Spec
  /\ WF_vars(ReaderOk \/ ReaderFails)
  /\ WF_vars(ConsumerRecv)
  /\ WF_vars(ConsumerPanic)
  /\ WF_vars(PanicCloseBody)
  /\ WF_vars(PanicExit)
  /\ WF_vars(QueueUpdate)
  /\ WF_vars(RunUpdate)
  /\ WF_vars(CloserRecv)
  /\ WF_vars(StopConsumer \/ StopCorrelator)
  /\ WF_vars(CloseBody)
  /\ WF_vars(ProcessExit)
  /\ WF_vars(DecodeClosed)
  /\ WF_vars(Notify)
  /\ WF_vars(CorrPanic)
  /\ WF_vars(CorrRecv)
  /\ WF_vars(CorrEmit)

\* ------------------------------------------------- history operators

\* The events of identity id that ProcessEvents has handled, in order.
EventsOf(id) ==
  SelectSeq(published, LAMBDA e : e.kind # "Other" /\ streamID(e) = id)

\* The identity a record was opened under.
RecordID(r) == streamID(r.Event)

\* The records put on requestCh for identity id, in order.
RecordsOf(id) == SelectSeq(emitted, LAMBDA r : RecordID(r) = id)

\* Number of events of kind k that ProcessEvents has handled for id.
CountOf(id, k) ==
  Cardinality({ i \in 1..Len(published) :
                  published[i].kind = k /\ streamID(published[i]) = id })

\* Identities with a RequestInit handled and no ResponseEnd handled after it.
OpenIDs ==
  { id \in StreamIDs :
      \E i \in 1..Len(published) :
        /\ published[i].kind = "RequestInit"
        /\ streamID(published[i]) = id
        /\ \A j \in (i+1)..Len(published) :
             ~(published[j].kind = "ResponseEnd" /\ streamID(published[j]) = id) }

\* Position of event e in the order the Decoder published.
PubIndex(e) == CHOOSE i \in 1..Len(published) : published[i] = e

\* Records that left ProcessEvents: delivered ones, then the queued ones.
Delivered == events \o requestCh

\* ------------------------------------------------------------- claims

\* C1: when the events handled for one identity are exactly RequestInit,
\* ResponseInit, ResponseEnd (events of other identities interleaved at
\* will), the records put on requestCh for that identity are exactly one,
\* holding exactly those three payloads; while the send is still pending,
\* that record is the one being sent and none is on the queue yet.
C1_TripleEmitsOneRecord ==
  \A id \in StreamIDs :
    LET sub == EventsOf(id) IN
    (/\ Len(sub) = 3
     /\ sub[1].kind = "RequestInit"
     /\ sub[2].kind = "ResponseInit"
     /\ sub[3].kind = "ResponseEnd")
    => LET rec == Stream(sub[1], sub[1], sub[2], sub[3]) IN
       IF corrPc = "emit" /\ corrReq.RspEnd = sub[3]
         THEN RecordsOf(id) = <<>> /\ corrReq = rec
         ELSE RecordsOf(id) = <<rec>>

\* C1 witness: a triple of one identity, with an event of another identity
\* between its RequestInit and its ResponseEnd, has been emitted and
\* delivered to el.events.
C1_Witness ==
  \E id \in StreamIDs :
    LET sub == EventsOf(id) IN
    /\ Len(sub) = 3
    /\ sub[1].kind = "RequestInit"
    /\ sub[2].kind = "ResponseInit"
    /\ sub[3].kind = "ResponseEnd"
    /\ sub[3].seq - sub[1].seq > 2
    /\ Len(RecordsOf(id)) = 1
    /\ \E i \in 1..Len(events) : RecordID(events[i]) = id

\* C2 (as claimed): whenever ProcessEvents is not in the middle of a send,
\* the keys of outstandingRequests are exactly the identities with a
\* RequestInit handled and no ResponseEnd handled since.
C2_LiveSetIsOpenSet ==
  corrPc # "emit" => DOMAIN outstandingRequests = OpenIDs

\* C3 (as claimed): the records emitted for an identity never outnumber the
\* RequestInit events handled for it.
C3_EmittedAtMostOncePerRequest ==
  \A id \in StreamIDs : Len(RecordsOf(id)) <= CountOf(id, "RequestInit")

\* C4 (as claimed): a step that handles a ResponseInit or ResponseEnd whose
\* identity is not open starts no send on requestCh and leaves the number of
\* keys of outstandingRequests unchanged.
C4_UnmatchedIsDropped ==
  [][ (/\ published' # published
       /\ decEvent.kind \in {"ResponseInit", "ResponseEnd"}
       /\ streamID(decEvent) \notin OpenIDs)
      => /\ corrPc' # "emit"
         /\ emitted' = emitted
         /\ requestCh' = requestCh
         /\ Cardinality(DOMAIN outstandingRequests')
              = Cardinality(DOMAIN outstandingRequests) ]_vars

\* C5: the records are put on requestCh, and dequeued into el.events, in the
\* order in which the Decoder published their ResponseEnd events: el.events
\* followed by the queue is the emission sequence, and in it a record stands
\* before another exactly when its ResponseEnd was published earlier.
C5_CompletionOrder ==
  /\ emitted = Delivered
  /\ \A i \in 1..Len(Delivered) :
       /\ Delivered[i].RspEnd.kind = "ResponseEnd"
       /\ \E n \in 1..Len(published) : published[n] = Delivered[i].RspEnd
  /\ \A i, j \in 1..Len(Delivered) :
       i < j => PubIndex(Delivered[i].RspEnd) < PubIndex(Delivered[j].RspEnd)

\* C5 witness: requestCh holds two records at once, of different
\* identities, and the one in front had its RequestInit published after the
\* other's and its ResponseEnd before.
C5_Witness ==
  /\ Len(requestCh) >= 2
  /\ RecordID(requestCh[1]) # RecordID(requestCh[2])
  /\ PubIndex(requestCh[1].ReqInit) > PubIndex(requestCh[2].ReqInit)
  /\ PubIndex(requestCh[1].RspEnd) < PubIndex(requestCh[2].RspEnd)

\* C6 (as claimed): once the send on done has completed no further record is
\* put on requestCh, and every record ever put there carries a ResponseEnd
\* that ProcessEvents handled.
C6_NoEmissionAfterStop ==
  [][ /\ (mainPc \in {"returned", "exited"} => emitted' = emitted)
      /\ \A i \in 1..Len(emitted') :
           \E n \in 1..Len(published') :
             /\ published'[n] = emitted'[i].RspEnd
             /\ published'[n].kind = "ResponseEnd" ]_vars

\* C7 (as claimed): after the send on done has completed, ProcessEvents and
\* RecvEvents both eventually return (a panic that ends the process ends
\* them too).
C7_BothTasksStop ==
  (mainPc = "returned") ~>
    (Panicked \/ (corrPc = "returned" /\ decPc = "returned"))

\* C8: RecvEvents hands the decoded events to eventCh in decode order, none
\* skipped (at most the one being sent is not yet handed over); after the
\* first decode failure it decodes and publishes nothing more, sends on
\* closing exactly once, and that send finds room in the buffer.
DecoderInv ==
  /\ Len(published) <= Len(decoded)
  /\ published = SubSeq(decoded, 1, Len(published))
  /\ Len(decoded) - Len(published) = (IF decPc = "send" THEN 1 ELSE 0)
  /\ decPc = "send" => decEvent = decoded[Len(decoded)]
  /\ (termination # "none") <=> (decPc \in {"notify", "returned"})
  /\ closingSent = (IF decPc = "returned" THEN 1 ELSE 0)
  /\ decPc = "notify" => closing < ClosingCap

C8_DecoderStopsOnFirstFailure ==
  [][ /\ DecoderInv'
      /\ termination # "none" =>
           /\ decoded' = decoded
           /\ published' = published
           /\ termination' = termination ]_vars

\* C8 witness: two events were published, then a decode failed, and
\* RecvEvents has notified and returned.
C8_Witness ==
  /\ decPc = "returned"
  /\ Len(published) >= 2
  /\ termination = "error"
  /\ closingSent = 1

\* C9 (as claimed): in a run where the user never leaves the UI, once the
\* closing notification has been received the Correlator and the consumer
\* loop eventually stop (a panic that ends the process ends them too).
C9_TeardownOnClosing ==
  \/ <>(mainPc # "run")
  \/ (closerPc = "done") ~>
       (Panicked \/ (corrPc = "returned" /\ ptePc = "returned"))

\* C10: requestCh never holds more than its capacity; every record put on it
\* is in el.events or still queued, in order; while ProcessEvents is blocked
\* sending to a full queue it takes no event from eventCh (so the Decoder's
\* send stays blocked) and keeps the record it is sending, which is the next
\* one put on the queue; and every record put on the queue reaches el.events
\* unless the user leaves the UI (the transport delivers finitely many
\* events here, so this is: from some point on, either the user has left
\* the UI or every emitted record is in el.events).
C10_Backpressure ==
  /\ [][ /\ Len(requestCh') <= RequestChCap
         /\ emitted' = events' \o requestCh'
         /\ corrPc = "emit" =>
              \/ corrPc' = "emit" /\ corrReq' = corrReq /\ emitted' = emitted
              \/ emitted' = Append(emitted, corrReq)
         /\ (corrPc = "emit" /\ Len(requestCh) = RequestChCap) =>
              /\ published' = published
              /\ emitted' = emitted
              /\ (decPc = "send" => decPc' = "send" /\ decEvent' = decEvent) ]_vars
  /\ <>[](mainPc # "run" \/ events = emitted)

\* The part of C10 the program does deliver: the blocking and the bound as
\* claimed, and delivery of every record in the runs no panic cuts short.
C10_BlockingPart ==
  /\ [][ /\ Len(requestCh') <= RequestChCap
         /\ emitted' = events' \o requestCh'
         /\ (corrPc = "emit" /\ Len(requestCh) = RequestChCap) =>
              /\ published' = published
              /\ emitted' = emitted
              /\ (decPc = "send" => decPc' = "send" /\ decEvent' = decEvent) ]_vars
  /\ <>[](mainPc # "run" \/ Panicked \/ events = emitted)

\* C10 witness: ProcessEvents is blocked sending to a full queue.
C10_Witness ==
  /\ corrPc = "emit"
  /\ Len(requestCh) = RequestChCap

\* Records that ProcessEvents has built: the emitted ones, then the one it
\* is sending.
Handed == emitted \o (IF corrPc = "emit" THEN <<corrReq>> ELSE <<>>)

\* The identity an event belongs to: its addresses and its stream number.
IdentityOf(e) == <<e.src, e.dst, e.stream>>

\* Positions before k at which a RequestInit of identity id was handled.
RequestsBefore(id, k) ==
  { i \in 1..(k - 1) :
      published[i].kind = "RequestInit" /\ IdentityOf(published[i]) = id }

\* Largest element of a non-empty set of numbers.
MaxOf(S) == CHOOSE x \in S : \A y \in S : y <= x

\* C11: every record ProcessEvents builds carries the latest RequestInit
\* handled for its identity before the record's ResponseEnd, and its
\* ResponseInit, when it has one, was handled after that RequestInit: what
\* arrived before a second RequestInit is not in the record.
C11_LatestRequestInitWins ==
  \A n \in 1..Len(Handed) :
    LET r == Handed[n]
        k == PubIndex(r.RspEnd)
        reqs == RequestsBefore(IdentityOf(r.RspEnd), k)
    IN /\ reqs # {}
       /\ r.ReqInit = published[MaxOf(reqs)]
       /\ r.Event = published[MaxOf(reqs)]
       /\ \/ r.RspInit = NoEvent
          \/ /\ r.RspInit.kind = "ResponseInit"
             /\ \E i \in (MaxOf(reqs) + 1)..(k - 1) : published[i] = r.RspInit

\* C11 witness: an identity got RequestInit, ResponseInit, a second
\* RequestInit and then ResponseEnd, and its record is in el.events with the
\* second RequestInit and no ResponseInit.
C11_Witness ==
  \E n \in 1..Len(events) :
    LET r == events[n]
        id == IdentityOf(r.ReqInit)
    IN /\ r.RspInit = NoEvent
       /\ \E i, j \in 1..Len(published) :
            /\ i < j /\ j < PubIndex(r.ReqInit)
            /\ published[i].kind = "RequestInit"
            /\ IdentityOf(published[i]) = id
            /\ published[j].kind = "ResponseInit"
            /\ IdentityOf(published[j]) = id

\* The events of identity id that ProcessEvents has handled, in order, by
\* the identity the events carry.
EventsOfIdentity(id) ==
  SelectSeq(published, LAMBDA e : e.kind # "Other" /\ IdentityOf(e) = id)

\* The records built whose RequestInit belongs to identity id, in order.
HandedOf(id) == SelectSeq(Handed, LAMBDA r : IdentityOf(r.ReqInit) = id)

\* C12: whatever the interleaving, the records built for an identity are the
\* records ProcessEvents builds from that identity's events alone, and the
\* payloads of every record all belong to one identity.
C12_IdentitiesAreIndependent ==
  [](/\ \A id \in StreamIDs :
          HandedOf(id) = ProcessAlone(EventsOfIdentity(id), <<>>, <<>>)
     /\ \A n \in 1..Len(Handed) :
          LET r == Handed[n] IN
          /\ IdentityOf(r.ReqInit) \in StreamIDs
          /\ IdentityOf(r.Event) = IdentityOf(r.ReqInit)
          /\ IdentityOf(r.RspEnd) = IdentityOf(r.ReqInit)
          /\ r.RspInit # NoEvent => IdentityOf(r.RspInit) = IdentityOf(r.ReqInit))

\* C12 witness: the records of two identities are in el.events, and the
\* second one's RequestInit was handled before the first one's ResponseEnd.
C12_Witness ==
  /\ Len(events) >= 2
  /\ IdentityOf(events[1].ReqInit) # IdentityOf(events[2].ReqInit)
  /\ PubIndex(events[2].ReqInit) < PubIndex(events[1].RspEnd)
  /\ PubIndex(events[1].ReqInit) < PubIndex(events[2].ReqInit)

\* C13 (as claimed): every record put on requestCh holds a RequestInit, a
\* ResponseInit and a ResponseEnd.
C13_FullTriple ==
  \A n \in 1..Len(emitted) :
    /\ emitted[n].ReqInit # NoEvent
    /\ emitted[n].RspInit # NoEvent
    /\ emitted[n].RspEnd # NoEvent

\* C13 (amended): every record put on requestCh holds a RequestInit and a
\* ResponseEnd; it holds a ResponseInit exactly when a ResponseInit of its
\* identity was handled between the two, and is emitted without one
\* otherwise.
C13_ResponseInitOptional ==
  \A n \in 1..Len(emitted) :
    LET r == emitted[n] IN
    /\ r.ReqInit.kind = "RequestInit"
    /\ r.RspEnd.kind = "ResponseEnd"
    /\ (r.RspInit # NoEvent) <=>
         \E i \in (PubIndex(r.ReqInit) + 1)..(PubIndex(r.RspEnd) - 1) :
           /\ published[i].kind = "ResponseInit"
           /\ IdentityOf(published[i]) = IdentityOf(r.ReqInit)

\* C13 witness: an identity for which no ResponseInit was ever handled has a
\* record in el.events.
C13_Witness ==
  \E n \in 1..Len(events) :
    /\ events[n].RspInit = NoEvent
    /\ \A i \in 1..Len(published) :
         ~(/\ published[i].kind = "ResponseInit"
           /\ IdentityOf(published[i]) = IdentityOf(events[n].ReqInit))

\* The end-to-end scenario: exactly RequestInit, ResponseInit, ResponseEnd
\* of one identity were decoded, then the stream ended.
ScenarioDecoded ==
  /\ Len(decoded) = 3
  /\ decoded[1].kind = "RequestInit"
  /\ decoded[2].kind = "ResponseInit"
  /\ decoded[3].kind = "ResponseEnd"
  /\ IdentityOf(decoded[1]) = IdentityOf(decoded[2])
  /\ IdentityOf(decoded[1]) = IdentityOf(decoded[3])
  /\ termination = "eof"

\* The consumer holds exactly the scenario's record and the Decoder has
\* given its notice.
ScenarioDelivered ==
  /\ Len(decoded) = 3
  /\ events = <<Stream(decoded[1], decoded[1], decoded[2], decoded[3])>>
  /\ requestCh = <<>>
  /\ closingSent = 1

\* C14 (as claimed): in a run where the user stays in the UI and the events
\* carry their metadata (no goroutine panics), the scenario leads to the
\* consumer holding exactly the one record, the Decoder's notice given, and
\* requestCh closed and empty, from then on.
C14_EndToEnd ==
  \/ <>(mainPc # "run")
  \/ <>Panicked
  \/ ScenarioDecoded ~> [](ScenarioDelivered /\ requestChClosed)

\* The part of C14 the program does deliver in such a run: the one record
\* and the notice.
C14_DeliveredPart ==
  \/ <>(mainPc # "run")
  \/ <>Panicked
  \/ ScenarioDecoded ~> []ScenarioDelivered

\* Position a of published holds a ResponseInit or ResponseEnd whose identity
\* had no RequestInit handled before it.
IsAnomaly(a) ==
  /\ published[a].kind \in {"ResponseInit", "ResponseEnd"}
  /\ published[a].hasId
  /\ RequestsBefore(IdentityOf(published[a]), a) = {}

\* Positions i < j < k of published hold a RequestInit, ResponseInit and
\* ResponseEnd of one identity, with no other event of that identity between.
IsTriple(i, j, k) ==
  /\ i < j /\ j < k
  /\ published[i].kind = "RequestInit"
  /\ published[j].kind = "ResponseInit"
  /\ published[k].kind = "ResponseEnd"
  /\ IdentityOf(published[j]) = IdentityOf(published[i])
  /\ IdentityOf(published[k]) = IdentityOf(published[i])
  /\ \A x \in (i + 1)..(k - 1) :
       x # j => IdentityOf(published[x]) # IdentityOf(published[i])

\* Every triple handled after an anomaly has its record among the records
\* ProcessEvents has built.
TriplesAfterAnomalyBuilt ==
  \A k \in 1..Len(published) :
    published[k].kind = "ResponseEnd" =>
      \A i \in 1..(k - 1) :
        published[i].kind = "RequestInit" =>
          \A j \in (i + 1)..(k - 1) :
            (IsTriple(i, j, k) /\ \E a \in 1..(i - 1) : IsAnomaly(a))
            => \E n \in 1..Len(Handed) :
                 Handed[n] = Stream(published[i], published[i],
                                    published[j], published[k])

\* The event handled last was an anomaly.
LastIsAnomaly == published # <<>> /\ IsAnomaly(Len(published))

\* C15: the step that handles a ResponseInit or ResponseEnd of an unknown
\* identity leaves ProcessEvents in its loop; ProcessEvents returns only by
\* receiving done; and a well-formed triple handled after such an anomaly
\* still has its record built.
C15_AnomalyIsNotFatal ==
  [][ /\ (published' # published /\ LastIsAnomaly')
        => corrPc' = "select"
      /\ (corrPc # "returned" /\ corrPc' = "returned")
        => (mainPc = "stopping" /\ mainPc' = "returned")
      /\ TriplesAfterAnomalyBuilt' ]_vars

\* C15 witness: an anomaly was handled, then a triple, and the triple's
\* record is in el.events.
C15_Witness ==
  \E a, i, j, k \in 1..Len(published) :
    /\ IsAnomaly(a) /\ a < i /\ IsTriple(i, j, k)
    /\ \E n \in 1..Len(events) :
         events[n] = Stream(published[i], published[i],
                            published[j], published[k])

\* C16: the step that handles an event whose payload is none of
\* RequestInit, ResponseInit, ResponseEnd changes neither
\* outstandingRequests nor requestCh, starts no send, and leaves
\* ProcessEvents in its loop, ready for the next event.
C16_OtherPayloadIgnored ==
  [][ (published' # published /\ decEvent.kind = "Other")
      => /\ outstandingRequests' = outstandingRequests
         /\ requestCh' = requestCh
         /\ emitted' = emitted
         /\ corrReq' = corrReq
         /\ corrPc' = "select" ]_vars

\* C16 witness: with an entry in outstandingRequests, an event of another
\* payload type was handled, and ProcessEvents handled a further event
\* after it.
C16_Witness ==
  /\ DOMAIN outstandingRequests # {}
  /\ \E p \in 2..(Len(published) - 1) :
       /\ published[p].kind = "Other"
       /\ published[p - 1].kind = "RequestInit"

\* C17 (as claimed): outstandingRequests changes only in a step of
\* ProcessEvents, and el.events is not appended to while the UI goroutine is
\* reading it in selectionChanged.
C17_NoSharedAccess ==
  [][ /\ outstandingRequests' # outstandingRequests => published' # published
      /\ uiPc = "reading" => events' = events ]_vars

\* C18 (as claimed): once RunE has reached its send on done, the send is
\* eventually received, in every run that no panic cuts short.
C18_StopCompletes ==
  (mainPc = "stopping") ~> (mainPc \in {"returned", "exited"} \/ aborted)

\* C19 (as claimed): after the one send on done has been received, the
\* consumer loop eventually returns and the body is closed (in every run
\* that no panic cuts short), and no further record is appended to
\* el.events.
C19_StopReachesConsumer ==
  /\ (mainPc = "returned") ~> (Panicked \/ (ptePc = "returned" /\ bodyClosed))
  /\ [][ (mainPc \in {"returned", "exited"}) => events' = events ]_vars

====
